---- MODULE Spec2Model ----
(***************************************************************************)
(* Model of src/main.rs: the interval remapping primitive RangeMap (get,   *)
(* get_ranges) and the chain composition RangeMapChain (resolve,           *)
(* resolve_ranges), with the minimum that main prints.                     *)
(*                                                                         *)
(* A rule is the tuple <<destination, source, size>>, an interval the      *)
(* tuple <<start, size>>, as in the source.  usize arithmetic is modelled  *)
(* with its width: an addition or subtraction that leaves 0..UsizeMax      *)
(* panics in a build with overflow checks and wraps in a build without.    *)
(***************************************************************************)
EXTENDS Integers, Sequences, FiniteSets

VARIABLES
    range_maps,   \* RangeMapChain.range_maps: sequence of [label, ranges]
    pc,           \* "idle", "loop" (in resolve_ranges), "returned", "panicked", "printed"
    call,         \* the call being made or last made: function and arguments
    idx,          \* resolve_ranges: index of the next stage the for loop takes
    mapped,       \* resolve_ranges: the local `mapped`
    ret           \* what the last completed call returned

vars == <<range_maps, pc, call, idx, mapped, ret>>

----------------------------------------------------------------------------
(* Bounds of the model. *)

\* usize is modelled UsizeBits wide.
UsizeBits == 10
UsizeMax == 2^UsizeBits - 1

\* Rules of the single-map specification: source in 0..MaxVal, size in
\* 0..MaxSize, at most MaxRules rules in a RangeMap.
MaxVal == 1
MaxSize == 2
MaxRules == 2

----------------------------------------------------------------------------
(* usize arithmetic. *)

Wrap(n) == (n + (UsizeMax + 1)) % (UsizeMax + 1)

Max(a, b) == IF a >= b THEN a ELSE b
Min(a, b) == IF a <= b THEN a ELSE b

\* Outcomes of a call.  ovf records that some intermediate expression left
\* 0..UsizeMax during the call.
Some(v, o) == [tag |-> "Some", val |-> v, ovf |-> o]
None(o) == [tag |-> "None", val |-> 0, ovf |-> o]
Panic == [tag |-> "Panic", val |-> 0, ovf |-> TRUE]
Ok(v, o) == [tag |-> "Ok", val |-> v, ovf |-> o]

----------------------------------------------------------------------------
(* RangeMap::get, lines 12-20.  chk: the build has overflow checks. *)

\* get with the upper end of the source interval taken inclusive.
RECURSIVE get_from_inclusive(_, _, _, _)
get_from_inclusive(ranges, value, i, chk) ==
    IF i > Len(ranges) THEN None(FALSE)
    ELSE LET destination == ranges[i][1]
             source == ranges[i][2]
             size == ranges[i][3]
         IN  IF source <= value /\ value <= source + size
             THEN Some(destination + value - source, FALSE)
             ELSE get_from_inclusive(ranges, value, i + 1, chk)

RECURSIVE get_from(_, _, _, _)
get_from(ranges, value, i, chk) ==
    IF i > Len(ranges) THEN None(FALSE)
    ELSE LET destination == ranges[i][1]
             source == ranges[i][2]
             size == ranges[i][3]
             o1 == source + size > UsizeMax
             o2 == destination + value > UsizeMax
             o3 == Wrap(destination + value) < source
             rest == get_from(ranges, value, i + 1, chk)
         IN  IF ~(source <= value) THEN rest
             ELSE IF chk /\ o1 THEN Panic
             ELSE IF ~(value < Wrap(source + size))
                  THEN [rest EXCEPT !.ovf = @ \/ o1]
             ELSE IF chk /\ (o2 \/ o3) THEN Panic
             ELSE Some(Wrap(Wrap(destination + value) - source), o1 \/ o2 \/ o3)

get(ranges, value, chk) == get_from(ranges, value, 1, chk)

----------------------------------------------------------------------------
(* RangeMap::get_ranges, lines 23-39. *)

\* The closure with the mapped start taken from the input's start, not the
\* intersection's.
get_ranges_rule_from_start(rule, start, size, chk) ==
    LET destination == rule[1]
        source == rule[2]
        s_size == rule[3]
        intersection_start == Max(start, source)
        intersection_end == Min(start + size, source + s_size)
    IN  IF intersection_start < intersection_end
        THEN Ok(<< << Wrap(destination + start - source),
                      intersection_end - intersection_start >> >>, FALSE)
        ELSE Ok(<<>>, FALSE)

\* The closure with the intersection ending where the rule's source ends.
get_ranges_rule_to_source_end(rule, start, size, chk) ==
    LET destination == rule[1]
        source == rule[2]
        s_size == rule[3]
        intersection_start == Max(start, source)
        intersection_end == source + s_size
    IN  IF intersection_start < intersection_end
        THEN Ok(<< << destination + intersection_start - source,
                      intersection_end - intersection_start >> >>, FALSE)
        ELSE Ok(<<>>, FALSE)

\* The closure of filter_map, lines 26-37, on one rule: the entries it
\* yields (none or one).
get_ranges_rule(rule, start, size, chk) ==
    LET destination == rule[1]
        source == rule[2]
        s_size == rule[3]
        intersection_start == Max(start, source)
        o1 == start + size > UsizeMax
        o2 == source + s_size > UsizeMax
        intersection_end == Min(Wrap(start + size), Wrap(source + s_size))
        o3 == destination + intersection_start > UsizeMax
        o4 == Wrap(destination + intersection_start) < source
    IN  IF chk /\ (o1 \/ o2) THEN Panic
        ELSE IF intersection_start < intersection_end
             THEN IF chk /\ (o3 \/ o4) THEN Panic
                  ELSE Ok(<< << Wrap(Wrap(destination + intersection_start) - source),
                                intersection_end - intersection_start >> >>,
                          o1 \/ o2 \/ o3 \/ o4)
             ELSE Ok(<<>>, o1 \/ o2)

\* get_ranges that also hands the input interval on unchanged.
RECURSIVE get_ranges_from_keep_input(_, _, _, _, _)
get_ranges_from_keep_input(ranges, start, size, i, chk) ==
    IF i > Len(ranges) THEN Ok(<< <<start, size>> >>, FALSE)
    ELSE LET head == get_ranges_rule(ranges[i], start, size, chk)
             rest == get_ranges_from_keep_input(ranges, start, size, i + 1, chk)
         IN  Ok(head.val \o rest.val, FALSE)

RECURSIVE get_ranges_from(_, _, _, _, _)
get_ranges_from(ranges, start, size, i, chk) ==
    IF i > Len(ranges) THEN Ok(<<>>, FALSE)
    ELSE LET head == get_ranges_rule(ranges[i], start, size, chk)
             rest == get_ranges_from(ranges, start, size, i + 1, chk)
         IN  IF head.tag = "Panic" \/ rest.tag = "Panic" THEN Panic
             ELSE Ok(head.val \o rest.val, head.ovf \/ rest.ovf)

get_ranges(ranges, start, size, chk) == get_ranges_from(ranges, start, size, 1, chk)

----------------------------------------------------------------------------
(* RangeMapChain.  A stage is the pair (label, RangeMap) of line 44, as the *)
(* record [label, ranges].                                                  *)

\* resolve letting a value no rule covers pass through unchanged.
RECURSIVE resolve_from_passthrough(_, _, _, _, _)
resolve_from_passthrough(maps, value, i, label, chk) ==
    IF i > Len(maps) THEN None(FALSE)
    ELSE LET output == get(maps[i].ranges, value, chk)
             next == IF output.tag = "Some" THEN output.val ELSE value
         IN  IF label = maps[i].label
             THEN Some(next, FALSE)
             ELSE resolve_from_passthrough(maps, next, i + 1, label, chk)

\* RangeMapChain::resolve, lines 48-61: the for loop from stage i on, with
\* the local `mapped`.
RECURSIVE resolve_from(_, _, _, _, _)
resolve_from(maps, value, i, label, chk) ==
    IF i > Len(maps) THEN None(FALSE)
    ELSE LET output == get(maps[i].ranges, value, chk)
         IN  IF output.tag = "Panic" THEN Panic
             ELSE IF output.tag = "Some"
                  THEN IF label = maps[i].label
                       THEN output
                       ELSE LET rest == resolve_from(maps, output.val, i + 1, label, chk)
                            IN  [rest EXCEPT !.ovf = @ \/ output.ovf]
             ELSE output

resolve(maps, value, label, chk) == resolve_from(maps, value, 1, label, chk)

\* flat_map splitting the first interval of the set only.
flat_map_from_first_only(ranges, intervals, j, chk) ==
    IF j > Len(intervals) THEN Ok(<<>>, FALSE)
    ELSE get_ranges(ranges, intervals[j][1], intervals[j][2], chk)

\* Line 66: mapped.into_iter().flat_map(|(start, size)|
\* range_map.get_ranges(start, size)).collect(), from the j-th interval on.
RECURSIVE flat_map_from(_, _, _, _)
flat_map_from(ranges, intervals, j, chk) ==
    IF j > Len(intervals) THEN Ok(<<>>, FALSE)
    ELSE LET head == get_ranges(ranges, intervals[j][1], intervals[j][2], chk)
             rest == flat_map_from(ranges, intervals, j + 1, chk)
         IN  IF head.tag = "Panic" \/ rest.tag = "Panic" THEN Panic
             ELSE Ok(head.val \o rest.val, head.ovf \/ rest.ovf)

flat_map(ranges, intervals, chk) == flat_map_from(ranges, intervals, 1, chk)

\* main, lines 184-187: .into_iter().map(|x| x.0).min().expect(...).
min_location(intervals) ==
    IF intervals = <<>> THEN [tag |-> "Abort", val |-> "Could not map any seeds!"]
    ELSE [tag |-> "Printed",
          val |-> CHOOSE m \in {intervals[j][1] : j \in 1..Len(intervals)} :
                    \A j \in 1..Len(intervals) : m <= intervals[j][1]]

----------------------------------------------------------------------------
(* Inputs. *)

SeqsUpTo(S, n) == UNION {[1..k -> S] : k \in 0..n}

\* Single-map specification: every rule list within the bounds.
\* Destinations lie below and above every source interval.
Destinations == {0, MaxVal + MaxSize + 1}
Rules == Destinations \X (0..MaxVal) \X (0..MaxSize)
RuleLists == SeqsUpTo(Rules, MaxRules)
Values == 0..(MaxVal + MaxSize)
Starts == 0..(MaxVal + 1)
Sizes == 0..(MaxSize + 1)

\* The RangeMap of test_resolve_range, line 210.
TestRanges == << <<100, 0, 50>>, <<200, 50, 50>>, <<500, 100, 100>> >>

\* Chain specification: stage labels as main gives them (lines 145-169), and
\* a label no stage of the model carries.
Labels == {"soil", "location"}
StopLabels == Labels \cup {"humidity"}

\* Stage maps of the chain specification: no rule; two rules with disjoint
\* sources; one rule; two rules with overlapping sources.
StageMaps ==
    { <<>>,
      << <<2, 0, 2>>, <<0, 2, 2>> >>,
      << <<1, 1, 3>> >>,
      << <<3, 0, 4>>, <<0, 1, 2>> >> }

\* At most MaxStages stages in a chain, at most MaxSeeds seed intervals.
MaxStages == 2
MaxSeeds == 2

Chains == SeqsUpTo([label : Labels, ranges : StageMaps], MaxStages)
SeedRanges == { <<0, 2>>, <<1, 4>>, <<3, 0>> }
SeedLists == SeqsUpTo(SeedRanges, MaxSeeds)
SeedValues == UNION {r[1]..(r[1] + r[2]) : r \in SeedRanges}

NoCall == [fn |-> "none"]
NoRet == [tag |-> "none"]

----------------------------------------------------------------------------
(* Actions. *)

\* A call of range_maps[1].1.get(value).
call_get(value) ==
    /\ pc = "idle"
    /\ Len(range_maps) >= 1
    /\ \E chk \in BOOLEAN :
         ret' = get(range_maps[1].ranges, value, chk)
    /\ call' = [fn |-> "get", value |-> value]
    /\ pc' = "returned"
    /\ UNCHANGED <<range_maps, idx, mapped>>

\* A call of range_maps[1].1.get_ranges(start, size).
call_get_ranges(start, size) ==
    /\ pc = "idle"
    /\ Len(range_maps) >= 1
    /\ \E chk \in BOOLEAN :
         ret' = get_ranges(range_maps[1].ranges, start, size, chk)
    /\ call' = [fn |-> "get_ranges", start |-> start, size |-> size]
    /\ pc' = "returned"
    /\ UNCHANGED <<range_maps, idx, mapped>>

\* test_resolve_range, lines 207-215: the two calls and their assert_eq.
test_resolve_range ==
    /\ pc = "idle"
    /\ Len(range_maps) = 1
    /\ range_maps[1].ranges = TestRanges
    /\ \E chk \in BOOLEAN :
         LET r1 == get_ranges(TestRanges, 25, 50, chk)
             r2 == get_ranges(TestRanges, 10, 10, chk)
         IN  ret' = [tag |-> "Test",
                     val |-> <<r1, r2>>,
                     passed |-> /\ r1.tag = "Ok"
                                /\ r1.val = << <<125, 25>>, <<200, 25>> >>
                                /\ r2.tag = "Ok"
                                /\ r2.val = << <<110, 10>> >>]
    /\ call' = [fn |-> "test_resolve_range"]
    /\ pc' = "returned"
    /\ UNCHANGED <<range_maps, idx, mapped>>

\* A call of chain.resolve(value, label).
call_resolve(value, label) ==
    /\ pc = "idle"
    /\ \E chk \in BOOLEAN :
         ret' = resolve(range_maps, value, label, chk)
    /\ call' = [fn |-> "resolve", value |-> value, label |-> label]
    /\ pc' = "returned"
    /\ UNCHANGED <<range_maps, idx, mapped>>

\* resolve_ranges, line 64: let mut mapped = ranges.into().
resolve_ranges_call(ranges, label) ==
    /\ pc = "idle"
    /\ call' = [fn |-> "resolve_ranges", ranges |-> ranges, label |-> label]
    /\ mapped' = ranges
    /\ idx' = 1
    /\ pc' = "loop"
    /\ UNCHANGED <<range_maps, ret>>

\* The iteration without the early exit: the label is never compared.
resolve_ranges_iter_no_exit ==
    /\ pc = "loop"
    /\ idx <= Len(range_maps)
    /\ mapped' = flat_map(range_maps[idx].ranges, mapped, TRUE).val
    /\ idx' = idx + 1
    /\ UNCHANGED <<range_maps, call, pc, ret>>

\* The iteration comparing the label before it applies the stage.
resolve_ranges_iter_exit_before_stage ==
    /\ pc = "loop"
    /\ idx <= Len(range_maps)
    /\ IF call.label = range_maps[idx].label
       THEN /\ pc' = "returned"
            /\ ret' = Ok(mapped, FALSE)
            /\ UNCHANGED <<mapped, idx>>
       ELSE /\ mapped' = flat_map(range_maps[idx].ranges, mapped, TRUE).val
            /\ idx' = idx + 1
            /\ UNCHANGED <<pc, ret>>
    /\ UNCHANGED <<range_maps, call>>

\* resolve_ranges, lines 65-69: one iteration of the for loop.
resolve_ranges_iter ==
    /\ pc = "loop"
    /\ idx <= Len(range_maps)
    /\ \E chk \in BOOLEAN :
         LET out == flat_map(range_maps[idx].ranges, mapped, chk)
         IN  IF out.tag = "Panic"
             THEN /\ pc' = "panicked"
                  /\ ret' = Panic
                  /\ UNCHANGED <<mapped, idx>>
             ELSE /\ mapped' = out.val
                  /\ IF call.label = range_maps[idx].label
                     THEN /\ pc' = "returned"
                          /\ ret' = Ok(out.val, out.ovf)
                          /\ idx' = idx
                     ELSE /\ pc' = "loop"
                          /\ idx' = idx + 1
                          /\ UNCHANGED ret
    /\ UNCHANGED <<range_maps, call>>

\* resolve_ranges, line 71: the chain is exhausted.
resolve_ranges_exhausted ==
    /\ pc = "loop"
    /\ idx > Len(range_maps)
    /\ ret' = Ok(mapped, FALSE)
    /\ pc' = "returned"
    /\ UNCHANGED <<range_maps, call, idx, mapped>>

\* main, lines 175-188, on what resolve_ranges returned.
main_print ==
    /\ pc = "returned"
    /\ call.fn = "resolve_ranges"
    /\ ret' = min_location(ret.val)
    /\ pc' = "printed"
    /\ UNCHANGED <<range_maps, call, idx, mapped>>

----------------------------------------------------------------------------
(* Specifications. *)

InitCommon ==
    /\ pc = "idle"
    /\ call = NoCall
    /\ idx = 0
    /\ mapped = <<>>
    /\ ret = NoRet

\* One RangeMap, every rule list within the bounds, and the test's.
InitMap ==
    /\ range_maps \in {<< [label |-> "soil", ranges |-> rs] >> :
                          rs \in RuleLists \cup {TestRanges}}
    /\ InitCommon

NextMap ==
    \/ \E value \in Values : call_get(value)
    \/ \E start \in Starts, size \in Sizes : call_get_ranges(start, size)
    \/ test_resolve_range

SpecMap == InitMap /\ [][NextMap]_vars

\* A chain and the calls on it.
Init ==
    /\ range_maps \in Chains
    /\ InitCommon

Next ==
    \/ \E value \in SeedValues, label \in StopLabels : call_resolve(value, label)
    \/ \E ranges \in SeedLists, label \in StopLabels : resolve_ranges_call(ranges, label)
    \/ resolve_ranges_iter
    \/ resolve_ranges_exhausted
    \/ main_print

Spec == Init /\ [][Next]_vars

\* Values near both ends of usize: a single rule over them, and arguments.
WideValues == (0..MaxVal) \cup ((UsizeMax - MaxVal)..UsizeMax)

InitOverflow ==
    /\ range_maps \in {<< [label |-> "soil", ranges |-> <<r>>] >> :
                          r \in WideValues \X WideValues \X WideValues}
    /\ InitCommon

NextOverflow ==
    \/ \E value \in WideValues : call_get(value)
    \/ \E start \in WideValues, size \in WideValues : call_get_ranges(start, size)

SpecOverflow == InitOverflow /\ [][NextOverflow]_vars

----------------------------------------------------------------------------
(* Vocabulary of the properties, over mathematical integers. *)

RECURSIVE SumSizes(_)
SumSizes(intervals) ==
    IF intervals = <<>> THEN 0 ELSE Head(intervals)[2] + SumSizes(Tail(intervals))

\* The values of the half-open interval [start, start + size).
IntervalValues(start, size) == start..(start + size - 1)

\* Rule i of rs has value v in its source interval.
Covers(rs, i, v) == rs[i][2] <= v /\ v < rs[i][2] + rs[i][3]
Covering(rs, v) == {i \in 1..Len(rs) : Covers(rs, i, v)}
Least(S) == CHOOSE m \in S : \A n \in S : m <= n

\* The intersection of [start, start + size) with rule i's source interval.
InterStart(rs, i, start) == Max(start, rs[i][2])
InterEnd(rs, i, start, size) == Min(start + size, rs[i][2] + rs[i][3])
Intersects(rs, i, start, size) == InterStart(rs, i, start) < InterEnd(rs, i, start, size)
Intersecting(rs, start, size) == {i \in 1..Len(rs) : Intersects(rs, i, start, size)}

\* No value belongs to the source intervals of two rules.
NonOverlapping(rs) ==
    \A i, j \in 1..Len(rs) :
        i # j => IntervalValues(rs[i][2], rs[i][3]) \cap IntervalValues(rs[j][2], rs[j][3]) = {}

TheMap == range_maps[1].ranges
Returned(fn) == pc = "returned" /\ call.fn = fn

----------------------------------------------------------------------------
(* C1.  get_ranges returns exactly one entry per rule whose source interval *)
(* intersects the input interval, in stored rule order, each entry being    *)
(* (destination + intersection_start - source, intersection_end -           *)
(* intersection_start); a length-0 input yields the empty result; and the   *)
(* two calls of test_resolve_range return what the test asserts.            *)
C1_OneEntryPerIntersectingRule ==
    /\ Returned("get_ranges") =>
         LET hits == Intersecting(TheMap, call.start, call.size)
             Rank(i) == Cardinality({j \in hits : j <= i})
         IN  /\ ret.tag = "Ok"
             /\ Len(ret.val) = Cardinality(hits)
             /\ \A i \in hits :
                  ret.val[Rank(i)] =
                    << TheMap[i][1] + InterStart(TheMap, i, call.start) - TheMap[i][2],
                       InterEnd(TheMap, i, call.start, call.size)
                         - InterStart(TheMap, i, call.start) >>
             /\ (call.size = 0 => ret.val = <<>>)
    /\ Returned("test_resolve_range") =>
         /\ ret.passed
         /\ ret.val[1].val = << <<125, 25>>, <<200, 25>> >>
         /\ ret.val[2].val = << <<110, 10>> >>

\* A call on two rules of which the first misses the input and the second
\* intersects it from inside (the intersection starts after the input does).
C1_Witness ==
    /\ Returned("get_ranges")
    /\ Len(TheMap) = 2
    /\ Intersecting(TheMap, call.start, call.size) = {2}
    /\ InterStart(TheMap, 2, call.start) > call.start
    /\ Len(ret.val) = 1

----------------------------------------------------------------------------
(* C2 as stated.  For all rule sets, the lengths get_ranges returns sum to  *)
(* the number of input values covered by some rule's source interval.       *)
C2_SumIsCoveredCount ==
    Returned("get_ranges") =>
        SumSizes(ret.val) =
          Cardinality({v \in IntervalValues(call.start, call.size) :
                         Covering(TheMap, v) # {}})

(* C2 as amended.  When the rules' source intervals are pairwise disjoint,  *)
(* the returned lengths sum to the number of input values covered by some   *)
(* rule; and for every rule set each returned interval is the image, under  *)
(* one rule's offset, of a sub-range of the input lying inside that rule's  *)
(* source interval, so no uncovered value is represented.                   *)
C2_SumIsCoveredCountWhenDisjoint ==
    Returned("get_ranges") =>
        /\ NonOverlapping(TheMap) =>
             SumSizes(ret.val) =
               Cardinality({v \in IntervalValues(call.start, call.size) :
                              Covering(TheMap, v) # {}})
        /\ \A k \in 1..Len(ret.val) :
             \E i \in 1..Len(TheMap) :
               \E a \in IntervalValues(call.start, call.size) :
                 /\ ret.val[k][1] = TheMap[i][1] + (a - TheMap[i][2])
                 /\ ret.val[k][2] >= 1
                 /\ \A v \in IntervalValues(a, ret.val[k][2]) :
                      /\ v \in IntervalValues(call.start, call.size)
                      /\ Covers(TheMap, i, v)

\* Two disjoint rules both cut by the input, part of which no rule covers.
C2_Witness ==
    /\ Returned("get_ranges")
    /\ Len(TheMap) = 2
    /\ NonOverlapping(TheMap)
    /\ Len(ret.val) = 2
    /\ SumSizes(ret.val) < call.size

----------------------------------------------------------------------------
(* C3 as stated.  The range-splitting path preserves the full range: the    *)
(* lengths get_ranges returns sum to the length it was given.               *)
C3_FullRangePreserved ==
    Returned("get_ranges") => SumSizes(ret.val) = call.size

----------------------------------------------------------------------------
(* C4.  get(v) returns destination + (v - source) of the first rule in      *)
(* stored order whose source interval contains v, and None exactly when no  *)
(* rule's source interval contains v.                                       *)
C4_GetFirstCoveringRule ==
    Returned("get") =>
        LET covering == Covering(TheMap, call.value)
            m == Least(covering)
        IN  /\ (ret.tag = "None") <=> (covering = {})
            /\ covering # {} =>
                 /\ ret.tag = "Some"
                 /\ ret.val = TheMap[m][1] + (call.value - TheMap[m][2])

\* Two rules contain the value, with different results; the first decides.
C4_Witness ==
    /\ Returned("get")
    /\ Covering(TheMap, call.value) = {1, 2}
    /\ TheMap[1][1] - TheMap[1][2] # TheMap[2][1] - TheMap[2][2]
    /\ ret.tag = "Some"

----------------------------------------------------------------------------
(* C8 as stated.  When source + size of every rule, start + length of the   *)
(* input and the mapped results are representable in usize, get and         *)
(* get_ranges evaluate no intermediate expression outside 0..UsizeMax: no   *)
(* overflow panic and no wrap-around.                                       *)
C8_NoOverflowWhenResultFits ==
    LET endpointsFit == \A i \in 1..Len(TheMap) : TheMap[i][2] + TheMap[i][3] <= UsizeMax
    IN  /\ ( /\ Returned("get")
             /\ endpointsFit
             /\ \A i \in Covering(TheMap, call.value) :
                  TheMap[i][1] + (call.value - TheMap[i][2]) <= UsizeMax )
           => (ret.tag # "Panic" /\ ~ret.ovf)
        /\ ( /\ Returned("get_ranges")
             /\ endpointsFit
             /\ call.start + call.size <= UsizeMax
             /\ \A i \in Intersecting(TheMap, call.start, call.size) :
                  TheMap[i][1] + (InterEnd(TheMap, i, call.start, call.size) - TheMap[i][2])
                    <= UsizeMax )
           => (ret.tag # "Panic" /\ ~ret.ovf)

----------------------------------------------------------------------------
(* Vocabulary of the chain properties. *)

\* The first stage labelled label, 0 when no stage is.
FirstLabelled(label) ==
    LET S == {i \in 1..Len(range_maps) : range_maps[i].label = label}
    IN  IF S = {} THEN 0 ELSE Least(S)

\* The value after stages 1..j, Absent when a stage on the way has no rule
\* covering the running value.
Absent == 0 - 1
RECURSIVE Composed(_, _)
Composed(value, j) ==
    IF j = 0 THEN value
    ELSE LET p == Composed(value, j - 1)
             rs == range_maps[j].ranges
         IN  IF p = Absent \/ Covering(rs, p) = {} THEN Absent
             ELSE rs[Least(Covering(rs, p))][1] + (p - rs[Least(Covering(rs, p))][2])

\* The concatenation of get_ranges over every interval of a set.
RECURSIVE SplitAll(_, _)
SplitAll(rs, intervals) ==
    IF intervals = <<>> THEN <<>>
    ELSE LET n == Len(intervals)
         IN  SplitAll(rs, SubSeq(intervals, 1, n - 1))
               \o get_ranges(rs, intervals[n][1], intervals[n][2], TRUE).val

\* The interval set folded through stages 1..j.
RECURSIVE Folded(_, _)
Folded(ranges, j) ==
    IF j = 0 THEN ranges ELSE SplitAll(range_maps[j].ranges, Folded(ranges, j - 1))

NumStages == Len(range_maps)
LastLabel == range_maps[NumStages].label

ValuesOf(intervals) ==
    UNION {IntervalValues(intervals[j][1], intervals[j][2]) : j \in 1..Len(intervals)}

----------------------------------------------------------------------------
(* C5.  resolve(value, stop_label) returns Some(w) exactly when a stage     *)
(* labelled stop_label exists and every stage up to and including the first *)
(* such stage has a rule covering the running value, w being the            *)
(* composition of those stages; otherwise it returns None (a stage without  *)
(* a covering rule, no stage labelled stop_label, the empty chain).         *)
C5_ResolveComposesToFirstLabelled ==
    Returned("resolve") =>
        LET k == FirstLabelled(call.label)
            w == IF k = 0 THEN Absent ELSE Composed(call.value, k)
        IN  /\ ret.tag \in {"Some", "None"}
            /\ (ret.tag = "Some") <=> (w # Absent)
            /\ ret.tag = "Some" => ret.val = w

\* Two stages, the second the first one labelled stop_label, both covering:
\* the result is the composition, and each stage moves the value.
C5_Witness ==
    /\ Returned("resolve")
    /\ NumStages = 2
    /\ FirstLabelled(call.label) = 2
    /\ ret.tag = "Some"
    /\ Composed(call.value, 1) # call.value
    /\ ret.val # Composed(call.value, 1)

----------------------------------------------------------------------------
(* C6.  resolve_ranges returns the interval set folded through stages 1..k, *)
(* k the first stage labelled stop_label, each stage replacing the set by   *)
(* the concatenation of get_ranges over its intervals; no stage after k is  *)
(* applied; when no stage is labelled stop_label the result is the fold     *)
(* through all stages (the input itself for the empty chain).               *)
C6_ResolveRangesFoldsToFirstLabelled ==
    Returned("resolve_ranges") =>
        LET k == FirstLabelled(call.label)
        IN  /\ ret.tag = "Ok"
            /\ ret.val = Folded(call.ranges, IF k = 0 THEN NumStages ELSE k)
            /\ idx = (IF k = 0 THEN NumStages + 1 ELSE k)

\* An early exit at the first of two stages, the second of which would have
\* changed the result.
C6_Witness ==
    /\ Returned("resolve_ranges")
    /\ NumStages = 2
    /\ FirstLabelled(call.label) = 1
    /\ ret.val # <<>>
    /\ Folded(call.ranges, 2) # Folded(call.ranges, 1)

----------------------------------------------------------------------------
(* C7 as stated.  For every non-empty chain, resolve_ranges with stop_label *)
(* the last stage's label returns what it returns with a stop_label that    *)
(* labels no stage: the fold through every stage.                           *)
C7_LastLabelLikeNoExit ==
    ( /\ Returned("resolve_ranges")
      /\ NumStages >= 1
      /\ (call.label = LastLabel \/ FirstLabelled(call.label) = 0) )
    => ret.val = Folded(call.ranges, NumStages)

(* C7 as amended.  For every non-empty chain whose last stage's label       *)
(* labels no earlier stage, resolve_ranges with stop_label the last stage's *)
(* label returns what it returns with a stop_label that labels no stage:    *)
(* the fold through every stage.                                            *)
C7_LastLabelLikeNoExitWhenUnique ==
    ( /\ Returned("resolve_ranges")
      /\ NumStages >= 1
      /\ FirstLabelled(LastLabel) = NumStages
      /\ (call.label = LastLabel \/ FirstLabelled(call.label) = 0) )
    => ret.val = Folded(call.ranges, NumStages)

\* A call with the last stage's label on two differently labelled stages,
\* the last of which changes the result.
C7_Witness ==
    /\ Returned("resolve_ranges")
    /\ NumStages = 2
    /\ range_maps[1].label # range_maps[2].label
    /\ call.label = LastLabel
    /\ ret.val # <<>>
    /\ Folded(call.ranges, 1) # ret.val

----------------------------------------------------------------------------
(* C9.  When every stage's rules have pairwise disjoint source intervals    *)
(* and stop_label labels some stage, the values covered by the intervals    *)
(* resolve_ranges returns are exactly the values resolve returns for the    *)
(* input values that resolve; main prints the least of them, and aborts     *)
(* exactly when no input value resolves.                                    *)
C9_RangesAgreeWithValues ==
    LET Resolved(v) == resolve(range_maps, v, call.label, TRUE)
        resolving == {v \in ValuesOf(call.ranges) : Resolved(v).tag = "Some"}
        results == {Resolved(v).val : v \in resolving}
    IN  ( /\ call.fn = "resolve_ranges"
          /\ FirstLabelled(call.label) # 0
          /\ \A j \in 1..NumStages : NonOverlapping(range_maps[j].ranges) )
        => /\ pc = "returned" => ValuesOf(ret.val) = results
           /\ pc = "printed" =>
                /\ (ret.tag = "Abort") <=> (results = {})
                /\ results # {} => (ret.tag = "Printed" /\ ret.val = Least(results))

\* Two stages with rules, two seed intervals of which some values resolve
\* and some do not, and a minimum that is not the first interval's start.
C9_Witness ==
    /\ pc = "printed"
    /\ ret.tag = "Printed"
    /\ NumStages = 2
    /\ FirstLabelled(call.label) = 2
    /\ \A j \in 1..NumStages :
         range_maps[j].ranges # <<>> /\ NonOverlapping(range_maps[j].ranges)
    /\ Len(call.ranges) = 2
    /\ \E v \in ValuesOf(call.ranges) : resolve(range_maps, v, call.label, TRUE).tag = "None"
    /\ Len(mapped) >= 2
    /\ ret.val # mapped[1][1]

----------------------------------------------------------------------------
(* C10.  A call of resolve_ranges applies the stages one by one in strictly *)
(* increasing index, each at most once; after a stage the working set has   *)
(* at most (intervals before) x (rules of the stage) intervals; and the     *)
(* call terminates: every step of the loop either returns or moves on to    *)
(* the next of the finitely many stages, and the step after the last stage  *)
(* returns.                                                                 *)
C10_EachStageOnceAndReturns ==
    /\ [](pc = "loop" => idx \in 1..(NumStages + 1))
    /\ [][ pc = "loop" =>
             IF idx <= NumStages
             THEN /\ Len(mapped') <= Len(mapped) * Len(range_maps[idx].ranges)
                  /\ \/ pc' = "loop" /\ idx' = idx + 1
                     \/ pc' = "returned" /\ idx' = idx
             ELSE pc' = "returned" /\ mapped' = mapped ]_vars

\* A call that went through two stages, the working set growing from one
\* interval to two (one per rule of the first stage) and then to three.
C10_Witness ==
    /\ Returned("resolve_ranges")
    /\ NumStages = 2
    /\ idx = 2
    /\ Len(call.ranges) = 1
    /\ Len(range_maps[1].ranges) = 2
    /\ Len(Folded(call.ranges, 1)) = 2
    /\ Len(mapped) = 3

====
